---------------------------- MODULE Spec2Model ----------------------------
(***************************************************************************)
(* A model of utils/buffer_large.py: the index policies (reservoir, ring,  *)
(* fifo), the rehearsal Buffer, the scalar BufferFIFO, the windowed        *)
(* StreamDataset and the two stream buffers that feed it.                  *)
(*                                                                         *)
(* Tensors are modelled by what the buffers do with them.  An attribute    *)
(* array of the Buffer is a record [shape, data]: shape is a token for     *)
(* attr.shape[1:] of the batch that allocated it, data maps each slot      *)
(* 0..buffer_size-1 to the identity of the item whose value was last       *)
(* written there (0 for the zeros torch.zeros put there).  The identity of *)
(* an item is 1 + the value of num_seen_examples when it was offered, so   *)
(* the k-th item offered since construction or the last empty() (k from 0) *)
(* has identity k+1.                                                       *)
(*                                                                         *)
(* A time series (dimension 1 of a [1, T, F] tensor) is the sequence of    *)
(* the identities of its time-steps, oldest first; a slice of it is a      *)
(* subsequence.                                                            *)
(***************************************************************************)
EXTENDS Integers, Sequences, FiniteSets

\* ------------------------------------------------------------------ bounds
MaxBufferSize == 3
MaxTasks == 2
MaxSeen == 5
MaxAttrSeen == 2
MaxBatch == 2
MaxSize == 4
MaxCalls == 4
MaxLoss == 2
MaxSeries == 6
MaxSeqLen == 2
MaxPredLen == 2
MaxSampleFreq == 3
MaxLogits == 3
MaxIndex == 4
MaxSteps == 3
MaxClock == 8

Modes == {"ring", "reservoir", "fifo"}
\* Two item shapes, attr.shape[1:], that differ (0 stands for no shape).
Shapes == {1, 2}

VARIABLES
    buffer_size,          \* Buffer.buffer_size
    mode,                 \* the mode string given to Buffer.__init__
    task_number,          \* Buffer.task_number (0: the attribute is not set)
    buffer_portion_size,  \* Buffer.buffer_portion_size (0 when not set)
    num_seen_examples,    \* Buffer.num_seen_examples
    tensors,              \* the attribute arrays the Buffer object has (hasattr)
    last,                 \* the last call on the Buffer: its name, the exception it raised, the slots it returned
    \* History of the calls since construction or the last empty():
    offered,              \* the number of items in the batches handed to add_data
    tasks_seen,           \* the task tags of the items handed to add_data
    emptied_shape         \* the item shape of the arrays the last empty() deleted (0: none)

    \* BufferFIFO
VARIABLES
    fifo_buffer_size,        \* BufferFIFO.buffer_size
    fifo_mode,               \* the mode string given to BufferFIFO.__init__
    fifo_num_seen_examples,  \* BufferFIFO.num_seen_examples
    losses,                  \* BufferFIFO.losses: slot -> value (no slot: the object has no such attribute)
    fifo_last,               \* the last call on the BufferFIFO: its name, the exception it raised, the slots it read
    fifo_calls               \* history: the values handed to add_data since construction or the last empty()

    \* StreamDataset
VARIABLES
    dataset_x,            \* StreamDataset.x: the time-steps of the input series
    dataset_y,            \* StreamDataset.y: the time-steps of the target series
    dataset_logits,       \* StreamDataset.logits: the side-channel entries
    dataset_seq_len,      \* StreamDataset.seq_len
    dataset_pred_len,     \* StreamDataset.pred_len
    dataset_sample_freq,  \* StreamDataset.sample_freq
    dataset_fast_mode,    \* StreamDataset.fast_mode
    dataset_last          \* the last call on the StreamDataset and what it returned or raised

datasetvars == <<dataset_x, dataset_y, dataset_logits, dataset_seq_len,
                 dataset_pred_len, dataset_sample_freq, dataset_fast_mode,
                 dataset_last>>

    \* FastStreamBuffer
VARIABLES
    fast_buffer_size,     \* FastStreamBuffer.buffer_size (0: no FastStreamBuffer was constructed)
    fast_seq_len,         \* FastStreamBuffer.seq_len
    fast_pred_len,        \* FastStreamBuffer.pred_len
    fast_x,               \* FastStreamBuffer.x: the time-steps of the series, or None
    fast_y,               \* FastStreamBuffer.y: time-steps and predicted steps, or None while the attribute is not set
    fast_length,          \* FastStreamBuffer.length
    fast_last,            \* the last call on the FastStreamBuffer: its name, the exception it raised
    \* History:
    fast_clock,           \* the number of time-steps handed to add_data since construction
    fast_initial          \* the length of the series the first add_data since construction or the last clear() stored (0: none yet)

fastvars == <<fast_buffer_size, fast_seq_len, fast_pred_len, fast_x, fast_y,
              fast_length, fast_last, fast_clock, fast_initial>>

    \* SlowStreamBuffer
VARIABLES
    slow_buffer_size,     \* SlowStreamBuffer.buffer_size (0: no SlowStreamBuffer was constructed)
    slow_seq_len,         \* SlowStreamBuffer.seq_len
    slow_pred_len,        \* SlowStreamBuffer.pred_len
    slow_sample_freq,     \* SlowStreamBuffer.sample_freq
    slow_x,               \* SlowStreamBuffer.x: the time-steps of the series, or None
    slow_logits,          \* SlowStreamBuffer.logits: each entry named by the newest time-step of the call that brought it
    slow_length,          \* SlowStreamBuffer.length
    slow_last,            \* the last call on the SlowStreamBuffer: its name, the exception it raised, the batch size of the loader
    \* History:
    slow_clock,           \* the number of time-steps handed to add_data since construction
    slow_initial          \* the length of the series the first add_data since construction or the last clear() stored (0: none yet)

slowvars == <<slow_buffer_size, slow_seq_len, slow_pred_len, slow_sample_freq,
              slow_x, slow_logits, slow_length, slow_last, slow_clock,
              slow_initial>>

fifovars == <<fifo_buffer_size, fifo_mode, fifo_num_seen_examples,
              losses, fifo_last, fifo_calls>>

bufvars == <<buffer_size, mode, task_number, buffer_portion_size,
             num_seen_examples, tensors, last,
             offered, tasks_seen, emptied_shape>>

config == <<buffer_size, mode, task_number, buffer_portion_size>>

vars == <<bufvars, fifovars, datasetvars, fastvars, slowvars>>

\* What a call on one object leaves alone: the other objects.
outside_Buffer == <<fifovars, datasetvars, fastvars, slowvars>>
outside_BufferFIFO == <<bufvars, datasetvars, fastvars, slowvars>>
outside_StreamDataset == <<bufvars, fifovars, fastvars, slowvars>>
outside_FastStreamBuffer == <<bufvars, fifovars, datasetvars, slowvars>>
outside_SlowStreamBuffer == <<bufvars, fifovars, datasetvars, fastvars>>

Min(a, b) == IF a < b THEN a ELSE b

Max(a, b) == IF a > b THEN a ELSE b

\* ----------------------------------------------------------- index policies

\* reservoir(): the values one call may return; rand = np.random.randint(0, n + 1)
\* is any integer of 0..n.
reservoir(n, size) ==
    IF n < size THEN {n}
    ELSE {IF rand < size THEN rand ELSE -1 : rand \in 0..n}

ring(n, portion_size, task) == (n % portion_size) + task * portion_size

\* A fifo that starts one slot late.
fifo_off_by_one(n, size) == (n + 1) % size

fifo(n, size) == n % size

\* ------------------------------------------------------------------ Buffer

attributes == <<"examples", "labels", "logits", "task_labels">>

Optional == {attributes[k] : k \in 2..4}

Slots == 0..(buffer_size - 1)

hasattr(a) == a \in DOMAIN tensors

no_tensors == [a \in {} |-> 0]

zeros(s) == [shape |-> s, data |-> [i \in Slots |-> 0]]

\* init_tensors: one zero array per non-null argument the object does not have yet.
init_tensors(T, given, s) ==
    [a \in (DOMAIN T) \cup given |-> IF a \in DOMAIN T THEN T[a] ELSE zeros(s)]

\* An add_data that follows the configured mode: ring within the portion of
\* task 0, reservoir with the draw that rejects once the buffer is full.
add_data_index_by_mode(n) ==
    IF mode = "reservoir" /\ n >= buffer_size THEN -1
    ELSE IF mode = "ring" THEN ring(n, buffer_portion_size, 0)
    ELSE fifo(n, buffer_size)

\* An add_data that counts the item before it computes the slot.
add_data_index_after_increment(n) == fifo(n + 1, buffer_size)

\* The slot add_data computes for an item: fifo, literally, whatever the mode.
add_data_index(n) == fifo(n, buffer_size)

\* The assignments of one loop iteration, in the order of attributes, from the
\* k-th on.  An assignment to an array the object does not have raises
\* AttributeError; one whose value has another item shape than the array raises
\* RuntimeError; either ends the call with the earlier assignments done.
RECURSIVE write_item(_, _, _, _, _, _)
write_item(T, k, index, id, given, s) ==
    IF k > Len(attributes) THEN [tensors |-> T, err |-> "none"]
    ELSE LET a == attributes[k] IN
         IF a \notin given THEN write_item(T, k + 1, index, id, given, s)
         ELSE IF a \notin DOMAIN T THEN [tensors |-> T, err |-> "AttributeError"]
         ELSE IF T[a].shape # s THEN [tensors |-> T, err |-> "RuntimeError"]
         ELSE write_item([T EXCEPT ![a].data[index] = id], k + 1, index, id, given, s)

\* The loop of add_data over a batch of b items, from item i on.
RECURSIVE add_items(_, _, _, _, _, _)
add_items(n, T, i, b, given, s) ==
    IF i = b THEN [n |-> n, tensors |-> T, err |-> "none"]
    ELSE LET index == add_data_index(n)
             w == IF index >= 0
                  THEN write_item(T, 1, index, n + 1, given, s)
                  ELSE [tensors |-> T, err |-> "none"]
         IN  IF w.err # "none"
             THEN [n |-> n + 1, tensors |-> w.tensors, err |-> w.err]
             ELSE add_items(n + 1, w.tensors, i + 1, b, given, s)

\* A call as last and fifo_last keep it: arg is the size asked of get_data
\* (0 for the other calls), ret the slots a read took, in the order it took them.
call(op, err, arg, ret) == [op |-> op, err |-> err, arg |-> arg, ret |-> ret]

\* Buffer.add_data with a batch of b items of item shape s and task tag t, the
\* optional attributes of opt given (non-null).
add_data(b, opt, s, t) ==
    /\ LET given == {"examples"} \cup opt
           T0 == IF hasattr("examples") THEN tensors
                 ELSE init_tensors(tensors, given, s)
           r == add_items(num_seen_examples, T0, 0, b, given, s)
       IN  /\ num_seen_examples' = r.n
           /\ tensors' = r.tensors
           /\ last' = call("add_data", r.err, 0, <<>>)
    /\ offered' = offered + b
    /\ tasks_seen' = IF b > 0 THEN tasks_seen \cup {t} ELSE tasks_seen
    /\ UNCHANGED <<config, emptied_shape, outside_Buffer>>

Tasks == 0..(IF task_number = 0 THEN 0 ELSE task_number - 1)

\* The calls of a caller that keeps to the first call's arguments: any
\* attributes and item shape while the buffer has no arrays, the same ones after.
AddData ==
    \E b \in 0..MaxBatch, opt \in SUBSET Optional, s \in Shapes, t \in Tasks :
        /\ offered + b <= MaxSeen
        /\ hasattr("examples") => /\ opt = DOMAIN tensors \ {"examples"}
                                  /\ s = tensors["examples"].shape
        /\ add_data(b, opt, s, t)

\* add_data with examples alone.
AddExamples ==
    \E b \in 0..MaxBatch :
        /\ offered + b <= MaxSeen
        /\ add_data(b, {}, 1, 0)

\* Any call: any attributes and any item shape, whatever the buffer holds.
AddAny ==
    \E b \in 0..MaxBatch, opt \in SUBSET Optional, s \in Shapes :
        /\ offered + b <= MaxAttrSeen
        /\ add_data(b, opt, s, 0)

\* np.random.choice with replace=True: any k values of 0..n-1.
random_choice_with_replacement(n, k) == [1..k -> 0..(n - 1)]

\* np.random.choice(n, size=k, replace=False): k distinct values of 0..n-1, in any order.
random_choice(n, k) ==
    {q \in [1..k -> 0..(n - 1)] : \A i, j \in 1..k : i # j => q[i] # q[j]}

\* A read that finds an examples array whatever the object has.
read_examples_unchecked == "none"

\* What the first read of self.examples raises.
read_examples == IF hasattr("examples") THEN "none" ELSE "AttributeError"

get_data(size) ==
    /\ IF read_examples # "none"
       THEN last' = call("get_data", read_examples, size, <<>>)
       ELSE LET n == Min(num_seen_examples, buffer_size)
                k == IF size > n THEN n ELSE size
            IN  \E choice \in random_choice(n, k) :
                    last' = call("get_data", "none", size, choice)
    /\ UNCHANGED <<config, num_seen_examples, tensors,
                   offered, tasks_seen, emptied_shape, outside_Buffer>>

GetData == \E size \in 0..MaxSize : get_data(size)

is_empty == num_seen_examples = 0

\* get_all_data returns every slot of every array the object has.
GetAllData ==
    /\ last' = call("get_all_data", read_examples, 0,
                    IF read_examples = "none"
                    THEN [i \in 1..buffer_size |-> i - 1] ELSE <<>>)
    /\ UNCHANGED <<config, num_seen_examples, tensors,
                   offered, tasks_seen, emptied_shape, outside_Buffer>>

\* An empty() that deletes the examples array alone.
deleted_examples_only(T) == [a \in (DOMAIN T) \ {"examples"} |-> T[a]]

\* empty(): delattr of every attribute the object has.
deleted(T) == [a \in {} |-> 0]

Empty ==
    /\ tensors' = deleted(tensors)
    /\ num_seen_examples' = 0
    /\ last' = call("empty", "none", 0, <<>>)
    /\ offered' = 0
    /\ tasks_seen' = {}
    /\ emptied_shape' = IF hasattr("examples") THEN tensors["examples"].shape ELSE 0
    /\ UNCHANGED <<config, outside_Buffer>>

\* Buffer.__init__
BufferInit ==
    /\ buffer_size \in 1..MaxBufferSize
    /\ mode \in Modes
    /\ \E n_tasks \in 1..MaxTasks :
          /\ task_number = IF mode = "ring" THEN n_tasks ELSE 0
          /\ buffer_portion_size = IF mode = "ring" THEN buffer_size \div n_tasks ELSE 0
    /\ num_seen_examples = 0
    /\ tensors = no_tensors
    /\ last = call("init", "none", 0, <<>>)
    /\ offered = 0
    /\ tasks_seen = {}
    /\ emptied_shape = 0

\* -------------------------------------------------------------- BufferFIFO

FifoModes == {"ring", "reservoir"}

FifoSlots == 0..(fifo_buffer_size - 1)

has_losses == DOMAIN losses # {}

\* A BufferFIFO.add_data that wraps around.
losses_index_wrapped == fifo(fifo_num_seen_examples, fifo_buffer_size)

\* The slot BufferFIFO.add_data writes: the counter itself, no policy applied.
losses_index == fifo_num_seen_examples

\* BufferFIFO.add_data with the scalar v.  The array is allocated on the first
\* call; a write at an index that is no slot raises IndexError before the
\* counter is touched.
fifo_add_data(v) ==
    /\ Len(fifo_calls) < MaxCalls
    /\ LET L0 == IF has_losses THEN losses ELSE [i \in FifoSlots |-> 0]
           index == losses_index
       IN  IF index \in DOMAIN L0
           THEN /\ losses' = [L0 EXCEPT ![index] = v]
                /\ fifo_num_seen_examples' = fifo_num_seen_examples + 1
                /\ fifo_last' = call("add_data", "none", 0, <<>>)
           ELSE /\ losses' = L0
                /\ fifo_num_seen_examples' = fifo_num_seen_examples
                /\ fifo_last' = call("add_data", "IndexError", 0, <<>>)
    /\ fifo_calls' = Append(fifo_calls, v)
    /\ UNCHANGED <<fifo_buffer_size, fifo_mode, outside_BufferFIFO>>

FifoAddData == \E v \in 1..MaxLoss : fifo_add_data(v)

\* A get_data that reads the k oldest slots, losses[0 : size].
fifo_window_leading(n, k) == [i \in 1..k |-> i - 1]

\* BufferFIFO.get_data: the mean over losses[n - size : n], modelled by the
\* slots of that slice.
fifo_window(n, k) == [i \in 1..k |-> n - k + i - 1]

fifo_get_data(size) ==
    /\ IF ~has_losses
       THEN fifo_last' = call("get_data", "AttributeError", size, <<>>)
       ELSE LET n == fifo_num_seen_examples
                m == Min(n, fifo_buffer_size)
                k == IF size > m THEN m ELSE size
            IN  fifo_last' = call("get_data", "none", size, fifo_window(n, k))
    /\ UNCHANGED <<fifo_buffer_size, fifo_mode, fifo_num_seen_examples,
                   losses, fifo_calls, outside_BufferFIFO>>

FifoGetData == \E size \in 0..MaxSize : fifo_get_data(size)

\* BufferFIFO.get_all_data reads self.examples, which no BufferFIFO has.
FifoGetAllData ==
    /\ fifo_last' = call("get_all_data", "AttributeError", 0, <<>>)
    /\ UNCHANGED <<fifo_buffer_size, fifo_mode, fifo_num_seen_examples,
                   losses, fifo_calls, outside_BufferFIFO>>

FifoEmpty ==
    /\ losses' = no_tensors
    /\ fifo_num_seen_examples' = 0
    /\ fifo_last' = call("empty", "none", 0, <<>>)
    /\ fifo_calls' = <<>>
    /\ UNCHANGED <<fifo_buffer_size, fifo_mode, outside_BufferFIFO>>

\* BufferFIFO.__init__
FifoInit ==
    /\ fifo_buffer_size \in 1..MaxBufferSize
    /\ fifo_mode \in FifoModes
    /\ fifo_num_seen_examples = 0
    /\ losses = no_tensors
    /\ fifo_last = call("init", "none", 0, <<>>)
    /\ fifo_calls = <<>>

\* ----------------------------------------------------------- StreamDataset

\* The time-steps numbered from..to, oldest first.
steps(from, to) == [i \in 1..(to - from + 1) |-> from + i - 1]

\* s[a:b] for 0 <= a: the elements at positions a..b-1 (from 0) that exist.
slice(s, a, b) == SubSeq(s, Min(a, Len(s)) + 1, Min(b, Len(s)))

\* A __len__ that clamps at zero.
dataset_len_clamped(x, seq_len, pred_len, sample_freq, fast_mode) ==
    IF fast_mode
    THEN IF Len(x) - seq_len < 0 THEN 0 ELSE Len(x) - seq_len
    ELSE IF Len(x) - seq_len - pred_len < 0 THEN 0
         ELSE (Len(x) - seq_len - pred_len) \div sample_freq + 1

\* StreamDataset.__len__; // is the floor division, as \div is.
dataset_len(x, seq_len, pred_len, sample_freq, fast_mode) ==
    IF fast_mode
    THEN Len(x) - seq_len
    ELSE (Len(x) - seq_len - pred_len) \div sample_freq + 1

\* What len(dataset) raises: the builtin rejects a negative __len__.
len_error(n) == IF n < 0 THEN "ValueError" ELSE "none"

\* What a call on the dataset returned: n of __len__, the windows and the
\* side-channel entry of __getitem__.
result(op, err, index, n, seq_x, seq_y, logits) ==
    [op |-> op, err |-> err, index |-> index, n |-> n,
     seq_x |-> seq_x, seq_y |-> seq_y, logits |-> logits]

\* len(dataset)
DatasetLen ==
    /\ LET n == dataset_len(dataset_x, dataset_seq_len, dataset_pred_len,
                            dataset_sample_freq, dataset_fast_mode)
       IN  dataset_last' = result("len", len_error(n), 0, n, <<>>, <<>>, 0)
    /\ UNCHANGED <<dataset_x, dataset_y, dataset_logits, dataset_seq_len,
                   dataset_pred_len, dataset_sample_freq, dataset_fast_mode,
                   outside_StreamDataset>>

\* A __getitem__ whose target window starts with the input window.
s_end_at_begin(s_begin, seq_len) == s_begin

s_end_of(s_begin, seq_len) == s_begin + seq_len

\* StreamDataset.__getitem__(index), index >= 0: the slices never raise, the
\* list index does when the side-channel has no such entry.
getitem(index) ==
    /\ LET s_begin == index * dataset_sample_freq
           s_end == s_end_of(s_begin, dataset_seq_len)
           seq_x == slice(dataset_x, s_begin, s_end)
           seq_y == slice(dataset_y, s_end, s_end + dataset_pred_len)
       IN  IF index < Len(dataset_logits)
           THEN dataset_last' = result("getitem", "none", index, 0, seq_x, seq_y,
                                       dataset_logits[index + 1])
           ELSE dataset_last' = result("getitem", "IndexError", index, 0, <<>>, <<>>, 0)
    /\ UNCHANGED <<dataset_x, dataset_y, dataset_logits, dataset_seq_len,
                   dataset_pred_len, dataset_sample_freq, dataset_fast_mode,
                   outside_StreamDataset>>

DatasetGetItem == \E index \in 0..MaxIndex : getitem(index)

\* StreamDataset.__init__ over an input and a target series of one length.
DatasetInit ==
    /\ \E L \in 0..MaxSeries : dataset_x = steps(1, L) /\ dataset_y = steps(1, L)
    /\ \E n \in 0..MaxLogits : dataset_logits = steps(1, n)
    /\ dataset_seq_len \in 1..MaxSeqLen
    /\ dataset_pred_len \in 1..MaxPredLen
    /\ dataset_sample_freq \in 1..MaxSampleFreq
    /\ dataset_fast_mode \in BOOLEAN
    /\ dataset_last = result("init", "none", 0, 0, <<>>, <<>>, 0)

\* -------------------------------------------------------- FastStreamBuffer

\* self.x = None.  Time-steps are numbered from 1 and predicted steps are 0,
\* so no series is this sequence.
None == <<-1>>

\* An add_data that never drops a time-step.
drop_none(s, a) == s

\* s[:, a:, :] for a >= 0: the series without its a oldest time-steps.
drop_oldest(s, a) == slice(s, a, Len(s))

\* s[:, -a:, :] for a >= 1: the a newest time-steps of the series.
newest(s, a) == SubSeq(s, Max(0, Len(s) - a) + 1, Len(s))

\* A prediction tensor: pred_len steps, none of them a time-step of the stream.
prediction(pred_len) == [i \in 1..pred_len |-> 0]

\* A buffer that starts to drop one call late.
evicts_late(length, size) == length > size

\* The test that makes add_data drop the oldest part of the series.
evicts(length, size) == length >= size

\* There is a FastStreamBuffer to call.
fast_constructed == fast_buffer_size # 0

\* FastStreamBuffer.add_data(x, pred), x a tensor of k >= 1 time-steps: the
\* next k of the stream.
fast_add_data(k) ==
    /\ fast_clock + k <= MaxClock
    /\ LET x == steps(fast_clock + 1, fast_clock + k)
           pred == prediction(fast_pred_len)
       IN  IF fast_x = None
           THEN /\ fast_x' = x
                /\ fast_y' = pred
                /\ fast_length' = 0
                /\ fast_initial' = k
           ELSE LET kept == IF evicts(fast_length, fast_buffer_size)
                            THEN drop_oldest(fast_x, 1) ELSE fast_x
                    x1 == kept \o newest(x, 1)
                IN  /\ fast_x' = x1
                    /\ fast_y' = x1 \o pred
                    /\ fast_length' = Len(x1) - fast_seq_len
                    /\ fast_initial' = fast_initial
    /\ fast_clock' = fast_clock + k
    /\ fast_last' = call("add_data", "none", 0, <<>>)
    /\ UNCHANGED <<fast_buffer_size, fast_seq_len, fast_pred_len,
                   outside_FastStreamBuffer>>

FastAddData == fast_constructed /\ \E k \in 1..MaxSteps : fast_add_data(k)

\* StreamDataset(self.x, self.y, self.seq_len, self.pred_len): four positional
\* arguments for the six that __init__ requires.
dataset_arguments == "TypeError"

\* FastStreamBuffer.get_data(size): the arguments are evaluated first (self.y
\* is no attribute before the first add_data), then the constructor is called;
\* no dataset is built, so neither len() nor the DataLoader is reached.
fast_get_data(size) ==
    /\ fast_last' = call("get_data",
                         IF fast_y = None THEN "AttributeError" ELSE dataset_arguments,
                         size, <<>>)
    /\ UNCHANGED <<fast_buffer_size, fast_seq_len, fast_pred_len, fast_x, fast_y,
                   fast_length, fast_clock, fast_initial, outside_FastStreamBuffer>>

FastGetData == fast_constructed /\ \E size \in 1..MaxSize : fast_get_data(size)

\* FastStreamBuffer.clear(): self.y stays.
FastClear ==
    /\ fast_constructed
    /\ fast_x' = None
    /\ fast_length' = 0
    /\ fast_initial' = 0
    /\ fast_last' = call("clear", "none", 0, <<>>)
    /\ UNCHANGED <<fast_buffer_size, fast_seq_len, fast_pred_len, fast_y,
                   fast_clock, outside_FastStreamBuffer>>

\* What FastStreamBuffer.__init__ sets besides its arguments.
fast_init ==
    /\ fast_x = None
    /\ fast_y = None
    /\ fast_length = 0
    /\ fast_last = call("init", "none", 0, <<>>)
    /\ fast_clock = 0
    /\ fast_initial = 0

\* FastStreamBuffer.__init__
FastInit ==
    /\ fast_buffer_size \in 1..MaxBufferSize
    /\ fast_seq_len \in 1..MaxSeqLen
    /\ fast_pred_len \in 1..MaxPredLen
    /\ fast_init

\* No FastStreamBuffer.
FastAbsent ==
    /\ fast_buffer_size = 0 /\ fast_seq_len = 0 /\ fast_pred_len = 0
    /\ fast_init

\* -------------------------------------------------------- SlowStreamBuffer

\* An add_data that drops a single time-step, as the FastStreamBuffer does.
dropped_one(sample_freq) == 1

\* The number of time-steps add_data drops from a full SlowStreamBuffer.
dropped(sample_freq) == sample_freq

\* There is a SlowStreamBuffer to call.
slow_constructed == slow_buffer_size # 0

\* SlowStreamBuffer.add_data(x, logits), x a tensor of k >= 1 time-steps: the
\* next k of the stream.
slow_add_data(k) ==
    /\ slow_clock + k <= MaxClock
    /\ LET x == steps(slow_clock + 1, slow_clock + k)
           logits == slow_clock + k
       IN  IF slow_x = None
           THEN /\ slow_x' = x
                /\ slow_logits' = <<logits>>
                /\ slow_length' = 0
                /\ slow_initial' = k
           ELSE LET full == evicts(slow_length, slow_buffer_size)
                    kept == IF full
                            THEN drop_oldest(slow_x, dropped(slow_sample_freq))
                            ELSE slow_x
                    kept_logits == IF full THEN slice(slow_logits, 1, Len(slow_logits))
                                   ELSE slow_logits
                    x1 == kept \o newest(x, slow_sample_freq)
                    d == Len(x1) - slow_seq_len - slow_pred_len
                IN  /\ slow_x' = x1
                    /\ slow_logits' = Append(kept_logits, logits)
                    /\ slow_length' = IF d >= 0 THEN d \div slow_sample_freq + 1 ELSE 0
                    /\ slow_initial' = slow_initial
    /\ slow_clock' = slow_clock + k
    /\ slow_last' = call("add_data", "none", 0, <<>>)
    /\ UNCHANGED <<slow_buffer_size, slow_seq_len, slow_pred_len, slow_sample_freq,
                   outside_SlowStreamBuffer>>

\* The first call stores a series of any length; a later call brings at least
\* the sample_freq time-steps that are appended.
SlowAddData ==
    /\ slow_constructed
    /\ \E k \in 1..MaxSteps :
          /\ slow_x # None => k >= slow_sample_freq
          /\ slow_add_data(k)

\* What DataLoader(dataset, batch_size, shuffle=True) raises: no batch size
\* below 1, no random sampler over an empty dataset.
loader_error(batch_size) == IF batch_size < 1 THEN "ValueError" ELSE "none"

\* SlowStreamBuffer.get_data(size): the strided dataset over self.x as input
\* and target is built whatever self.x is; len() reads self.x.size(1).
slow_get_data(size) ==
    /\ IF slow_x = None
       THEN slow_last' = call("get_data", "AttributeError", size, <<>>)
       ELSE LET n == dataset_len(slow_x, slow_seq_len, slow_pred_len,
                                 slow_sample_freq, FALSE)
                batch_size == IF size > n THEN n ELSE size
            IN  IF len_error(n) # "none"
                THEN slow_last' = call("get_data", len_error(n), size, <<>>)
                ELSE IF loader_error(batch_size) # "none"
                THEN slow_last' = call("get_data", loader_error(batch_size), size, <<>>)
                ELSE slow_last' = call("get_data", "none", size, <<batch_size>>)
    /\ UNCHANGED <<slow_buffer_size, slow_seq_len, slow_pred_len, slow_sample_freq,
                   slow_x, slow_logits, slow_length, slow_clock, slow_initial,
                   outside_SlowStreamBuffer>>

SlowGetData == slow_constructed /\ \E size \in 1..MaxSize : slow_get_data(size)

\* SlowStreamBuffer.clear()
SlowClear ==
    /\ slow_constructed
    /\ slow_x' = None
    /\ slow_logits' = <<>>
    /\ slow_length' = 0
    /\ slow_initial' = 0
    /\ slow_last' = call("clear", "none", 0, <<>>)
    /\ UNCHANGED <<slow_buffer_size, slow_seq_len, slow_pred_len, slow_sample_freq,
                   slow_clock, outside_SlowStreamBuffer>>

\* What SlowStreamBuffer.__init__ sets besides its arguments.
slow_init ==
    /\ slow_x = None
    /\ slow_logits = <<>>
    /\ slow_length = 0
    /\ slow_last = call("init", "none", 0, <<>>)
    /\ slow_clock = 0
    /\ slow_initial = 0

\* SlowStreamBuffer.__init__
SlowInit ==
    /\ slow_buffer_size \in 1..MaxBufferSize
    /\ slow_seq_len \in 1..MaxSeqLen
    /\ slow_pred_len \in 1..MaxPredLen
    /\ slow_sample_freq \in 1..MaxSampleFreq
    /\ slow_init

\* No SlowStreamBuffer.
SlowAbsent ==
    /\ slow_buffer_size = 0 /\ slow_seq_len = 0 /\ slow_pred_len = 0
    /\ slow_sample_freq = 0
    /\ slow_init

\* ---------------------------------------------------------- specifications

\* A specification follows the calls on one object, constructed with any of
\* its arguments; the other object stays as its constructor's defaults leave it
\* (mode 'fifo' and n_tasks 1 for a Buffer, mode 'reservoir' for a BufferFIFO).
BufferDefault == BufferInit /\ buffer_size = 1 /\ mode = "fifo"

FifoDefault == FifoInit /\ fifo_buffer_size = 1 /\ fifo_mode = "reservoir"

\* The smallest StreamDataset: empty series, strides and windows of 1, with
\* the default fast_mode.
DatasetDefault ==
    /\ DatasetInit
    /\ dataset_x = <<>> /\ dataset_logits = <<>>
    /\ dataset_seq_len = 1 /\ dataset_pred_len = 1 /\ dataset_sample_freq = 1
    /\ dataset_fast_mode

\* The stream buffers have no default arguments: where none is followed, none
\* is constructed.
StreamDefault == FastAbsent /\ SlowAbsent

InitBuffer == BufferInit /\ FifoDefault /\ DatasetDefault /\ StreamDefault

InitFIFO == BufferDefault /\ FifoInit /\ DatasetDefault /\ StreamDefault

InitStreamDataset == BufferDefault /\ FifoDefault /\ DatasetInit /\ StreamDefault

InitFast == BufferDefault /\ FifoDefault /\ DatasetDefault /\ FastInit /\ SlowAbsent

InitSlow == BufferDefault /\ FifoDefault /\ DatasetDefault /\ FastAbsent /\ SlowInit

\* The calls that change what the Buffer holds, from a caller that keeps to
\* the arguments of its first call.
BufferNext == AddData \/ Empty

SpecBuffer == InitBuffer /\ [][BufferNext]_vars

\* The same calls with any arguments: attributes the first call did not give,
\* attributes it gave left out, another item shape.
BufferAttrsNext == AddAny \/ Empty

SpecBufferAttrs == InitBuffer /\ [][BufferAttrsNext]_vars

\* The reads, over buffers filled with examples alone: a read changes nothing
\* of the buffer, and what it selects depends on the counter and on the
\* examples array alone.
BufferReadNext == AddExamples \/ Empty \/ GetData \/ GetAllData

SpecBufferRead == InitBuffer /\ [][BufferReadNext]_vars

\* The calls on the BufferFIFO.
FifoNext == FifoAddData \/ FifoGetData \/ FifoGetAllData \/ FifoEmpty

SpecFIFO == InitFIFO /\ [][FifoNext]_vars

\* The calls on a FastStreamBuffer.
FastNext == FastAddData \/ FastGetData \/ FastClear

SpecFast == InitFast /\ [][FastNext]_vars

\* The calls on a SlowStreamBuffer.
SlowNext == SlowAddData \/ SlowGetData \/ SlowClear

SpecSlow == InitSlow /\ [][SlowNext]_vars

\* The calls that change what a stream buffer holds, on a FastStreamBuffer or
\* on a SlowStreamBuffer constructed with any arguments.
InitStream ==
    /\ BufferDefault /\ FifoDefault /\ DatasetDefault
    /\ \/ FastInit /\ SlowAbsent
       \/ FastAbsent /\ SlowInit

StreamNext == FastAddData \/ FastClear \/ SlowAddData \/ SlowClear

SpecStream == InitStream /\ [][StreamNext]_vars

\* The calls on a StreamDataset.
StreamDatasetNext == DatasetLen \/ DatasetGetItem

SpecStreamDataset == InitStreamDataset /\ [][StreamDatasetNext]_vars

\* ------------------------------------------------------------------ claims

examples_data == tensors["examples"].data

\* The slots that hold an item.
written == {i \in Slots : examples_data[i] # 0}

\* The last of the first m items (counted from 0) whose index is i modulo C.
latest(i, m, C) ==
    CHOOSE j \in 0..(m - 1) :
        /\ j % C = i
        /\ \A j2 \in 0..(m - 1) : j2 % C = i => j2 <= j

\* What C slots hold after m items written round-robin from slot 0: the
\* identity of the last item of each slot, 0 in a slot no item reached.
round_robin(m, C) ==
    [i \in 0..(C - 1) |->
        IF \E j \in 0..(m - 1) : j % C = i THEN 1 + latest(i, m, C) ELSE 0]

\* C1: in fifo mode, after add_data calls offering m items in all to an empty
\* buffer, the counter is m and, once m >= capacity, every slot i of every
\* array holds the item with the largest index j < m such that j mod capacity = i.
C1_FifoSlots ==
    mode = "fifo" =>
        /\ num_seen_examples = offered
        /\ offered >= buffer_size =>
              \A a \in DOMAIN tensors : \A i \in Slots :
                  tensors[a].data[i] = 1 + latest(i, offered, buffer_size)

\* The example of C1: capacity 3, five items one after the other, the slots
\* hold the 4th, the 5th and the 3rd.
C1_Witness ==
    /\ mode = "fifo" /\ buffer_size = 3 /\ offered = 5 /\ num_seen_examples = 5
    /\ hasattr("examples")
    /\ examples_data = [i \in 0..2 |-> IF i = 0 THEN 4 ELSE IF i = 1 THEN 5 ELSE 3]

\* C2 as claimed: in ring mode with portion size P = capacity // n_tasks >= 1,
\* after m items all tagged with task t, the slots written are exactly
\* { t*P + (i mod P) : 0 <= i < m }.
C2_RingPortion ==
    \A t \in Tasks :
        (/\ mode = "ring" /\ buffer_portion_size >= 1
         /\ hasattr("examples") /\ tasks_seen = {t}) =>
            written = {ring(i, buffer_portion_size, t) : i \in 0..(offered - 1)}

\* One more item, offered by one add_data call.
AddOne ==
    \E opt \in SUBSET Optional, s \in Shapes, t \in Tasks :
        /\ opt = DOMAIN tensors \ {"examples"}
        /\ s = tensors["examples"].shape
        /\ add_data(1, opt, s, t)

\* C3 as claimed, for n = capacity + 1: in reservoir mode, when the buffer has
\* just filled, every item it holds (the earliest included) is still held after
\* the next item in at least one execution of add_data.
C3_ReservoirMayRetain ==
    (mode = "reservoir" /\ hasattr("examples") /\ num_seen_examples = buffer_size) =>
        \A i \in Slots :
            ENABLED (AddOne /\ tensors'["examples"].data[i] = examples_data[i])

\* C4: in reservoir mode, while no more items than the capacity were offered,
\* slots 0..n-1 hold the n items in the order offered and the others none.
C4_ReservoirFilling ==
    (mode = "reservoir" /\ hasattr("examples") /\ offered <= buffer_size) =>
        /\ num_seen_examples = offered
        /\ \A a \in DOMAIN tensors : \A i \in Slots :
              tensors[a].data[i] = IF i < offered THEN i + 1 ELSE 0

C4_Witness ==
    /\ mode = "reservoir" /\ buffer_size = 3 /\ offered = 3
    /\ hasattr("examples") /\ hasattr("labels")
    /\ examples_data = [i \in 0..2 |-> i + 1]

C6_GetDataSelection ==
    (last.op = "get_data" /\ num_seen_examples >= 1) =>
        LET n == Min(num_seen_examples, buffer_size) IN
        /\ last.err = "none"
        /\ Len(last.ret) = Min(last.arg, n)
        /\ \A p, q \in 1..Len(last.ret) : p # q => last.ret[p] # last.ret[q]
        /\ \A p \in 1..Len(last.ret) :
              /\ last.ret[p] \in 0..(n - 1)
              /\ examples_data[last.ret[p]] # 0

\* A request for more than the buffer holds: both of the two written slots of
\* a buffer of three.
C6_Witness ==
    /\ last.op = "get_data" /\ last.arg = 3
    /\ buffer_size = 3 /\ num_seen_examples = 2
    /\ last.ret = <<1, 0>>

\* C7: while the buffer has no arrays, get_data and get_all_data raise, return
\* nothing, and leave the counter and the (absent) arrays as they were.
C7_UnallocatedReadFails ==
    [][(last'.op \in {"get_data", "get_all_data"} /\ ~hasattr("examples")) =>
          /\ last'.err = "AttributeError"
          /\ last'.ret = <<>>
          /\ UNCHANGED <<num_seen_examples, tensors>>]_vars

\* get_data on a buffer that was filled and then emptied.
C7_Witness ==
    /\ last.op = "get_data" /\ last.err = "AttributeError"
    /\ emptied_shape # 0 /\ ~hasattr("examples") /\ num_seen_examples = 0

\* C8: empty() leaves the counter at 0, is_empty() true and no array; the
\* add_data that follows, like the first one after construction, succeeds,
\* allocates exactly the arrays of the attributes it is given, with the item
\* shape of its batch, and leaves in them what writing its b items from slot 0
\* on leaves.
C8_EmptyThenAdd ==
    [][/\ last'.op = "empty" =>
             (num_seen_examples' = 0 /\ is_empty' /\ tensors' = no_tensors)
       /\ (~hasattr("examples") /\ last'.op = "add_data") =>
           \A b \in 0..MaxBatch, opt \in SUBSET Optional, s \in Shapes :
             add_data(b, opt, s, 0) =>
                 /\ last'.err = "none"
                 /\ num_seen_examples' = b
                 /\ DOMAIN tensors' = {"examples"} \cup opt
                 /\ \A a \in DOMAIN tensors' :
                       /\ tensors'[a].shape = s
                       /\ tensors'[a].data = round_robin(b, buffer_size)]_vars

\* An add_data after an empty() that gives fewer attributes and another item
\* shape than the arrays empty() deleted.
C8_Witness ==
    /\ last.op = "add_data" /\ last.err = "none"
    /\ emptied_shape # 0
    /\ DOMAIN tensors = {"examples", "logits"}
    /\ tensors["examples"].shape # emptied_shape
    /\ num_seen_examples = 1 /\ offered = 1
    /\ examples_data[0] = 1

\* C9 as claimed: in every state, slot i of all the arrays the buffer has
\* holds values of one and the same item.
C9_Aligned ==
    \A a1, a2 \in DOMAIN tensors : \A i \in Slots :
        tensors[a1].data[i] = tensors[a2].data[i]

C12_LenNonNegative ==
    dataset_last.op = "len" =>
        LET needed == IF dataset_fast_mode THEN dataset_seq_len
                      ELSE dataset_seq_len + dataset_pred_len
        IN  /\ dataset_last.err = "none"
            /\ dataset_last.n >= 0
            /\ Len(dataset_x) < needed => dataset_last.n = 0

\* C18: in a strided dataset over an input and a target series of one length
\* L >= seq_len + pred_len, every index i below the length of the dataset
\* yields full windows, i*sample_freq + seq_len + pred_len <= L: seq_len
\* time-steps from i*sample_freq on, then the pred_len time-steps that follow;
\* at index i = length the windows do not fit.
C18_FullWindows ==
    (/\ dataset_last.op = "getitem" /\ dataset_last.err = "none"
     /\ ~dataset_fast_mode
     /\ Len(dataset_y) = Len(dataset_x)
     /\ Len(dataset_x) >= dataset_seq_len + dataset_pred_len) =>
        LET L == Len(dataset_x)
            length == dataset_len(dataset_x, dataset_seq_len, dataset_pred_len,
                                  dataset_sample_freq, dataset_fast_mode)
            b == dataset_last.index * dataset_sample_freq
        IN  /\ length >= 1
            /\ dataset_last.index < length =>
                  /\ b + dataset_seq_len + dataset_pred_len <= L
                  /\ dataset_last.seq_x = steps(b + 1, b + dataset_seq_len)
                  /\ dataset_last.seq_y = steps(b + dataset_seq_len + 1,
                                                b + dataset_seq_len + dataset_pred_len)
            /\ dataset_last.index = length =>
                  /\ b + dataset_seq_len + dataset_pred_len > L
                  /\ Len(dataset_last.seq_x) + Len(dataset_last.seq_y)
                        < dataset_seq_len + dataset_pred_len

\* The second and last window of a series of six time-steps, stride 2.
C18_Witness ==
    /\ dataset_last.op = "getitem" /\ dataset_last.err = "none"
    /\ ~dataset_fast_mode /\ dataset_sample_freq = 2
    /\ dataset_seq_len = 2 /\ dataset_pred_len = 1
    /\ Len(dataset_x) = 6 /\ dataset_last.index = 1
    /\ dataset_last.seq_x = <<3, 4>> /\ dataset_last.seq_y = <<5>>

\* C13: every FastStreamBuffer.add_data after the first made while length >=
\* buffer_size removes exactly the oldest time-step of the series and appends
\* exactly the newest time-step of the incoming x, so the series is as long as
\* before and keeps its order; one made while length < buffer_size removes
\* nothing and makes the series one time-step longer.
C13_FastDropOneAppendOne ==
    [][(fast_clock' > fast_clock /\ fast_x # None) =>
          IF fast_length >= fast_buffer_size
          THEN /\ fast_x' = Append(Tail(fast_x), fast_clock')
               /\ Len(fast_x) >= 1
               /\ Len(fast_x') = Len(fast_x)
          ELSE /\ fast_x' = Append(fast_x, fast_clock')
               /\ Len(fast_x') = Len(fast_x) + 1]_vars

\* A full buffer of capacity 2 after one more call: time-step 1 is gone, the
\* last of the three incoming time-steps is there.
C13_Witness ==
    /\ fast_last.op = "add_data"
    /\ fast_buffer_size = 2 /\ fast_seq_len = 1
    /\ fast_x = <<2, 3, 6>> /\ fast_length = 2

\* C14 as claimed: after every FastStreamBuffer.add_data, the first on an
\* empty or cleared buffer included, length = series length - seq_len.
C14_FastLength ==
    fast_x # None => fast_length = Len(fast_x) - fast_seq_len

\* C15 as claimed: once add_data was called, get_data(size) succeeds for every
\* size >= 1.
C15_FastGetDataSucceeds ==
    (fast_last.op = "get_data" /\ fast_y # None) => fast_last.err = "none"

C17_SlowLength ==
    slow_x # None =>
        /\ slow_length = dataset_len_clamped(slow_x, slow_seq_len, slow_pred_len,
                                             slow_sample_freq, FALSE)
        /\ slow_length = dataset_len(slow_x, slow_seq_len, slow_pred_len,
                                     slow_sample_freq, FALSE)

\* The number of windows of the dataset get_data builds over a series.
windows(x) == dataset_len(x, slow_seq_len, slow_pred_len, slow_sample_freq, FALSE)

\* C19 as claimed: after every SlowStreamBuffer.add_data there are at least as
\* many side-channel entries as the dataset get_data builds has windows, and an
\* add_data after the first changes the two numbers by the same amount.
C19_SlowLogitsPerWindow ==
    [][slow_clock' > slow_clock =>
          /\ Len(slow_logits') >= windows(slow_x')
          /\ slow_x # None =>
                windows(slow_x') - windows(slow_x)
                    = Len(slow_logits') - Len(slow_logits)]_vars

=============================================================================
